---------------------------- MODULE Spec2Model ----------------------------
(***************************************************************************)
(* Audio-reactive visualizer (src/code.c): the audio callback (analyzer),  *)
(* the render loop, and the VisualizerState they share under one mutex.    *)
(*                                                                         *)
(* Number representation.  The C floats are modelled in decimal fixed      *)
(* point:                                                                  *)
(*   amplitude, beat_energy, energy : millionths (1000000 = 1.0)           *)
(*   hue                            : tenths of a degree (3600 = 360.0)    *)
(*   x, y, dx, dy, speed            : thousandths of a pixel               *)
(* lifetime is a C int, alpha a Uint8 (arithmetic modulo 256), last_beat   *)
(* and the clock are Uint32 milliseconds.                                  *)
(***************************************************************************)
EXTENDS Integers, Sequences, FiniteSets, TLC

(***************************************************************************)
(* Program constants (src/code.c:6-11) and the constants in the code.      *)
(***************************************************************************)
SCREEN_SIZE == 800
\* BEAT_THRESHOLD 1.4, in tenths
BEAT_THRESHOLD == 14
\* RAND_MAX of <stdlib.h>
RAND_MAX == 2147483647
\* the hue step 0.3f, in tenths of a degree, and the full turn 360
HUE_STEP == 3
HUE_TURN == 3600
\* the alpha decrement of one advance step, and the Uint8 modulus
ALPHA_STEP == 8
UINT8_MOD == 256
\* the alpha of a fresh particle
ALPHA_FULL == 255
\* rand()%30 + 20
LIFE_SPREAD == 30
LIFE_MIN == 20

(***************************************************************************)
(* Bounds of the model.                                                    *)
(***************************************************************************)
\* The pool capacity: MAX_PARTICLES is 300 in the code, scaled down here.
MAX_PARTICLES == 2
\* number of samples in one buffer (len / sizeof(Sint16); 2048 in the code)
NumSamples == 2
\* analyzer invocations and render frames of one run of the handler-level model
MaxCalls == 3
MaxFrames == 1
\* the number of silent buffers after which a handler-level run may start
LongSilence == 1198
\* analyzer invocations and render frames of one run of the particle
\* lifecycle model
MaxLifeCalls == 2
MaxLifeFrames == 33
\* analyzer invocations and render frames of one run of the two-thread model
MaxThreadCalls == 2
MaxThreadFrames == 2
\* clock ticks (milliseconds) of one run
MaxTicks == 1
\* length of a fed stream
\* analyzer invocations, and frames counted, with the render loop unending
MaxPoolCalls == 3
MaxPoolFrames == 2
\* analyzer invocations, and frames counted, with both threads scheduled
MaxFairCalls == 1
MaxFairFrames == 1
MaxFeed == 60
\* buffers fed from a pulse stream (more than the 1200 of a full hue turn),
\* and the distance between its Loud buffers
LongFeed == 1205
PulsePeriod == 4
\* whole turns added to or taken from a hue handed to HSLtoRGB
MaxTurns == 2
\* the earliest buffer of a stream at which the spike may come
FirstSpike == 46

Slots == 1..MAX_PARTICLES

Abs(n) == IF n < 0 THEN -n ELSE n

(***************************************************************************)
(* Inputs.  A buffer is a sequence of NumSamples Sint16 samples.           *)
(***************************************************************************)
\* all samples zero: silence
Silent == [i \in 1..NumSamples |-> 0]
\* samples of magnitude 328 (328/32768 is the 16-bit level nearest 0.01),
\* alternating in sign
Quiet == [i \in 1..NumSamples |-> IF i % 2 = 1 THEN 328 ELSE -328]
\* samples of magnitude 4751: level 0.145
Soft == [i \in 1..NumSamples |-> IF i % 2 = 1 THEN -4751 ELSE 4751]
\* every sample at -32768: level 1.0
Loud == [i \in 1..NumSamples |-> -32768]

Buffers == {Silent, Soft, Loud}
\* the buffers of the lifecycle runs
LifeBuffers == {Silent, Loud}

\* Three successive results of rand(), as one spawn draws them (angle,
\* speed, lifetime).  536870912 is a quarter of RAND_MAX + 1.
RandSeqs == {<<0, 0, 12>>, <<536870912, RAND_MAX, 0>>, <<RAND_MAX, 12, 29>>}

(***************************************************************************)
(* Pure functions of the code.                                             *)
(***************************************************************************)
\* fabs(samples[i]) / 32768.0f, in millionths: 1000000/32768 = 15625/512
SampleLevel(s) == (Abs(s) * 15625) \div 512

RECURSIVE SumLevels(_, _)
SumLevels(buf, n) == IF n = 0 THEN 0 ELSE SumLevels(buf, n - 1) + SampleLevel(buf[n])

\* energy = sum / num_samples
Energy(buf) == SumLevels(buf, Len(buf)) \div Len(buf)

\* the weights exchanged: 0.1f * beat_energy + 0.9f * energy
EMA_swapped(b, e) == (b + 9 * e + 5) \div 10

\* 0.9f * beat_energy + 0.1f * energy, rounded to the nearest millionth
EMA(b, e) == (9 * b + e + 5) \div 10

\* the comparison turned round
Onset_inverted(e, b) == 10 * e < BEAT_THRESHOLD * b

\* >= for >
Onset_orEqual(e, b) == 10 * e >= BEAT_THRESHOLD * b

\* energy > beat_energy * BEAT_THRESHOLD (both sides times ten)
Onset(e, b) == 10 * e > BEAT_THRESHOLD * b

\* min + (float)rand() / (RAND_MAX/(max - min)), for an integral max - min
RandRange_fromZero(min, max, r) == r \div (RAND_MAX \div (max - min))

RandRange(min, max, r) == min + r \div (RAND_MAX \div (max - min))

\* cos and sin, in thousandths, of an angle given in eighths of a turn
Cos8(k) == <<1000, 707, 0, -707, -1000, -707, 0, 707>>[(k % 8) + 1]
Sin8(k) == <<0, 707, 1000, 707, 0, -707, -1000, -707>>[(k % 8) + 1]

\* The slot contents written by a spawn from the rand() results rnd.
\* angle = rand_range(0, 2 pi) is taken in eighths of a turn, speed =
\* rand_range(1, 3) in thousandths.
NewParticle(rnd) ==
    LET angle == RandRange(0, 8, rnd[1])
        speed == RandRange(1000, 3000, rnd[2])
    IN  [x |-> (SCREEN_SIZE \div 2) * 1000,
         y |-> (SCREEN_SIZE \div 2) * 1000,
         dx |-> (Cos8(angle) * speed) \div 1000,
         dy |-> (Sin8(angle) * speed) \div 1000,
         lifetime |-> (rnd[3] % LIFE_SPREAD) + LIFE_MIN,
         alpha |-> ALPHA_FULL]

\* the scan takes any slot, active or not
IsFree_any(p) == TRUE

\* the test of the spawn scan
IsFree(p) == p.lifetime <= 0

\* the scan falls back on the last slot when it finds none free
FirstFree_highest(ps) ==
    IF \E i \in Slots : IsFree(ps[i])
    THEN CHOOSE i \in Slots : IsFree(ps[i]) /\ \A j \in (i + 1)..MAX_PARTICLES : ~IsFree(ps[j])
    ELSE 0

FirstFree_orLast(ps) ==
    IF \E i \in Slots : IsFree(ps[i])
    THEN CHOOSE i \in Slots : IsFree(ps[i]) /\ \A j \in 1..(i - 1) : ~IsFree(ps[j])
    ELSE MAX_PARTICLES

\* The slot the scan for(i=0; i<MAX_PARTICLES; i++) stops at: the lowest
\* free one, or 0 when it runs to the end without finding any.
FirstFree(ps) ==
    IF \E i \in Slots : IsFree(ps[i])
    THEN CHOOSE i \in Slots : IsFree(ps[i]) /\ \A j \in 1..(i - 1) : ~IsFree(ps[j])
    ELSE 0

\* the spawn loop as a whole
SpawnInto(ps, rnd) ==
    IF FirstFree(ps) = 0 THEN ps
    ELSE [ps EXCEPT ![FirstFree(ps)] = NewParticle(rnd)]

\* alpha -= 8 on a Uint8
Fade(a) == (a - ALPHA_STEP) % UINT8_MOD

\* lifetime -= 2
Age_double(l) == l - 2

\* lifetime--
Age(l) == l - 1

\* a slot no frame ever touches
Advance_frozen(p) == p

\* the body of the advance loop for one slot
Advance(p) ==
    IF p.lifetime > 0
    THEN [p EXCEPT !.x = @ + p.dx, !.y = @ + p.dy,
                   !.lifetime = Age(@), !.alpha = Fade(@)]
    ELSE p

\* drawing only what is still alive once aged
DrawnSlots_afterAging(ps) == {i \in Slots : Age(ps[i].lifetime) > 0}

\* The slots draw_particles passes to SDL_RenderDrawPoint: the draw is in the
\* same if(p->lifetime > 0) body as the advance, after it.
DrawnSlots(ps) == {i \in Slots : ps[i].lifetime > 0}

\* hue + 0.3f with no fmod
NextHue_nowrap(h) == h + HUE_STEP

\* fmod(hue + 0.3f, 360)
NextHue(h) == (h + HUE_STEP) % HUE_TURN

\* fmod(a, b) of <math.h> for b > 0: the result has the sign of a
FMod(a, b) == IF a >= 0 THEN a % b ELSE -((-a) % b)

\* The conversion of the float v * 255 (v in thousandths) to a Uint8: the
\* set of values it may yield.  The fraction is dropped; a value of -1 or
\* less, or of 256 or more, is outside the range of the type and the
\* conversion is undefined, so any Uint8 may come out.
ToUint8(v) ==
    IF v * 255 > -1000 /\ v * 255 < 256000
    THEN {IF v >= 0 THEN (v * 255) \div 1000 ELSE 0}
    ELSE 0..255

\* HSLtoRGB(h, s, l, &r, &g, &b): the set of <<r, g, b>> it may store, for
\* h in tenths of a degree and s, l in thousandths.  fmod(h/60.0, 2) is
\* fmod(h, 120)/60, so 1 - |fmod(h/60.0, 2) - 1| is (60 - |fmod(h, 120) -
\* 60|)/60.
HSLtoRGB(h, s, l) ==
    LET hh == FMod(h, HUE_TURN)
        c == ((1000 - Abs(2 * l - 1000)) * s) \div 1000
        x == (c * (600 - Abs(FMod(hh, 1200) - 600))) \div 600
        m == l - c \div 2
        Out(r, g, b) == {<<cr, cg, cb>> : cr \in ToUint8(r), cg \in ToUint8(g),
                                          cb \in ToUint8(b)}
    IN  IF hh < 600 THEN Out(c + m, x + m, m)
        ELSE IF hh < 1200 THEN Out(x + m, c + m, m)
        ELSE IF hh < 1800 THEN Out(m, c + m, x + m)
        ELSE IF hh < 2400 THEN Out(m, x + m, c + m)
        ELSE Out(x + m, m, c + m)

\* the pool of VisualizerState state = {0}
EmptyPool == [i \in Slots |-> [x |-> 0, y |-> 0, dx |-> 0, dy |-> 0,
                               lifetime |-> 0, alpha |-> 0]]

ActiveSlots(ps) == {i \in Slots : ps[i].lifetime > 0}

(***************************************************************************)
(* State.                                                                  *)
(***************************************************************************)
VARIABLES
    \* VisualizerState state
    amplitude, beat_energy, last_beat, particles, hue,
    \* SDL_mutex *mutex: the set of threads holding it
    holders,
    \* the value SDL_GetTicks() returns
    ticks,
    \* audio_callback: position, stream, energy, whether the onset branch
    \* was taken, and the number of completed invocations
    pcA, samples, energy, beat, calls,
    \* draw_visualization: position, the SDL_GetTicks() value read, the
    \* last_beat and amplitude read for the radius, the hue read for the
    \* ring and for the particles, the slots drawn, completed frames
    pcR, now, rLast, rAmp, ringHue, partHue, drawn, frames,
    \* history: for each slot, the frame count, invocation count and
    \* lifetime at its latest spawn (lifetime 0: never spawned)
    spawned,
    \* history: the values of amplitude, last_beat and hue left by the
    \* latest completed analyzer invocation
    committed,
    \* the stream being fed (stream model) and the onsets signalled so far
    feed, onsets,
    \* the latest pair of HSLtoRGB calls made side by side (colour model)
    probe

shared == <<amplitude, beat_energy, last_beat, particles, hue>>
audioLocals == <<samples, energy, beat>>
renderLocals == <<now, rLast, rAmp, ringHue, partHue, drawn>>
vars == <<amplitude, beat_energy, last_beat, particles, hue, holders, ticks,
          pcA, samples, energy, beat, calls,
          pcR, now, rLast, rAmp, ringHue, partHue, drawn, frames,
          spawned, committed, feed, onsets, probe>>

NoFeed == [kind |-> "none", buf |-> Silent, spike |-> 0]

NoProbe == [h |-> 0, k |-> 0, s |-> 0, l |-> 0, base |-> <<0, 0, 0>>,
            turned |-> <<0, 0, 0>>, made |-> FALSE]

\* main() up to the render loop: state = {0}, the mutex created and free
Boot ==
    /\ amplitude = 0 /\ beat_energy = 0 /\ last_beat = 0
    /\ particles = EmptyPool /\ hue = 0
    /\ holders = {}
    /\ ticks = 0
    /\ pcA = "a_idle" /\ samples = Silent /\ energy = 0 /\ beat = FALSE
    /\ calls = 0
    /\ pcR = "r_idle" /\ now = 0 /\ rLast = 0 /\ rAmp = 0
    /\ ringHue = 0 /\ partHue = 0 /\ drawn = {} /\ frames = 0
    /\ spawned = [i \in Slots |-> [frame |-> 0, call |-> 0, lifetime |-> 0]]
    /\ committed = [amplitude |-> 0, last_beat |-> 0, hue |-> 0]
    /\ onsets = {}

Init == Boot /\ feed = NoFeed /\ probe = NoProbe

\* The program after LongSilence all-zero buffers and no frame: every
\* such invocation leaves amplitude, beat_energy, last_beat and the pool
\* at zero and adds 0.3 to hue, so the state differs from the initial one
\* in hue and in the number of invocations only.
AfterSilence ==
    /\ amplitude = 0 /\ beat_energy = 0 /\ last_beat = 0
    /\ particles = EmptyPool /\ hue = (HUE_STEP * LongSilence) % HUE_TURN
    /\ holders = {}
    /\ ticks = 0
    /\ pcA = "a_idle" /\ samples = Silent /\ energy = 0 /\ beat = FALSE
    /\ calls = LongSilence
    /\ pcR = "r_idle" /\ now = 0 /\ rLast = 0 /\ rAmp = 0
    /\ ringHue = 0 /\ partHue = 0 /\ drawn = {} /\ frames = 0
    /\ spawned = [i \in Slots |-> [frame |-> 0, call |-> 0, lifetime |-> 0]]
    /\ committed = [amplitude |-> 0, last_beat |-> 0,
                    hue |-> (HUE_STEP * LongSilence) % HUE_TURN]
    /\ onsets = {}
    /\ feed = NoFeed
    /\ probe = NoProbe

\* a handler-level run starts at program start or after the long silence
HInit == Init \/ AfterSilence

\* history of spawns: the slot a spawn fills, if any, is stamped
Stamp(ps, on, rnd) ==
    IF on /\ FirstFree(ps) # 0
    THEN [spawned EXCEPT ![FirstFree(ps)] =
             [frame |-> frames, call |-> calls + 1,
              lifetime |-> NewParticle(rnd).lifetime]]
    ELSE spawned

(***************************************************************************)
(* The handlers, each as one step (the mutex makes them so).               *)
(***************************************************************************)
\* audio_callback with the onset test made before the baseline is updated
AudioCallback_testFirst(buf, rnd) ==
    LET e == Energy(buf)
        b == EMA(beat_energy, e)
        on == Onset(e, beat_energy)
    IN  /\ samples' = buf /\ energy' = e /\ beat' = on
        /\ amplitude' = e
        /\ beat_energy' = b
        /\ last_beat' = IF on THEN ticks ELSE last_beat
        /\ particles' = IF on THEN SpawnInto(particles, rnd) ELSE particles
        /\ hue' = NextHue(hue)
        /\ calls' = calls + 1
        /\ spawned' = Stamp(particles, on, rnd)
        /\ committed' = [amplitude |-> amplitude', last_beat |-> last_beat',
                         hue |-> hue']
        /\ onsets' = IF on THEN onsets \cup {calls + 1} ELSE onsets

\* audio_callback(userdata, stream, len) on the buffer buf, with rnd the
\* next results of rand()
AudioCallback(buf, rnd) ==
    LET e == Energy(buf)
        b == EMA(beat_energy, e)
        on == Onset(e, b)
    IN  /\ samples' = buf /\ energy' = e /\ beat' = on
        /\ amplitude' = e
        /\ beat_energy' = b
        /\ last_beat' = IF on THEN ticks ELSE last_beat
        /\ particles' = IF on THEN SpawnInto(particles, rnd) ELSE particles
        /\ hue' = NextHue(hue)
        /\ calls' = calls + 1
        /\ spawned' = Stamp(particles, on, rnd)
        /\ committed' = [amplitude |-> amplitude', last_beat |-> last_beat',
                         hue |-> hue']
        /\ onsets' = IF on THEN onsets \cup {calls + 1} ELSE onsets

\* draw_visualization(renderer): the radius from ticks, last_beat and
\* amplitude, draw_circle, draw_particles
DrawFrame ==
    /\ now' = ticks /\ rLast' = last_beat /\ rAmp' = amplitude
    /\ ringHue' = hue
    /\ partHue' = hue
    /\ drawn' = DrawnSlots(particles)
    /\ particles' = [i \in Slots |-> Advance(particles[i])]

\* one pass of the render loop, counted
DrawVisualization == DrawFrame /\ frames' = frames + 1

\* the millisecond clock advances
Tick ==
    /\ ticks < MaxTicks
    /\ ticks' = ticks + 1
    /\ UNCHANGED <<probe, shared, holders, pcA, audioLocals, calls, pcR, renderLocals,
                   frames, spawned, committed, feed, onsets>>

HAudio ==
    /\ calls < MaxCalls \/ (calls >= LongSilence /\ calls < LongSilence + MaxCalls)
    /\ \E buf \in Buffers, rnd \in RandSeqs : AudioCallback(buf, rnd)
    /\ UNCHANGED <<probe, holders, ticks, pcA, pcR, renderLocals, frames, feed>>

HRender ==
    /\ frames < MaxFrames
    /\ DrawVisualization
    /\ UNCHANGED <<probe, amplitude, beat_energy, last_beat, hue, holders, ticks,
                   pcA, audioLocals, calls, pcR, spawned, committed, feed, onsets>>

HNext == HAudio \/ HRender \/ Tick

SpecHandlers == HInit /\ [][HNext]_vars

(***************************************************************************)
(* The same handlers over runs long enough for a particle to live out its  *)
(* lifetime (the clock is not observed to advance during such a run).      *)
(***************************************************************************)
LAudio ==
    /\ calls < MaxLifeCalls
    /\ \E buf \in LifeBuffers, rnd \in RandSeqs : AudioCallback(buf, rnd)
    /\ UNCHANGED <<probe, holders, ticks, pcA, pcR, renderLocals, frames, feed>>

LRender ==
    /\ frames < MaxLifeFrames
    /\ DrawVisualization
    /\ UNCHANGED <<probe, amplitude, beat_energy, last_beat, hue, holders, ticks,
                   pcA, audioLocals, calls, pcR, spawned, committed, feed, onsets>>

LNext == LAudio \/ LRender

SpecLife == Init /\ [][LNext]_vars

(***************************************************************************)
(* The render loop without end: while(1) in main keeps drawing frames, the *)
(* analyzer is invoked a bounded number of times in between.  The frame    *)
(* counter stops counting at MaxPoolFrames; the frames go on.              *)
(***************************************************************************)
\* rand() results giving the shortest and the longest lifetime
PoolRands == {<<0, 0, 0>>, <<536870912, RAND_MAX, 29>>}

PAudio ==
    /\ calls < MaxPoolCalls
    /\ \E buf \in LifeBuffers, rnd \in PoolRands : AudioCallback(buf, rnd)
    /\ UNCHANGED <<probe, holders, ticks, pcA, pcR, renderLocals, frames, feed>>

PRender ==
    /\ DrawFrame
    /\ frames' = IF frames < MaxPoolFrames THEN frames + 1 ELSE frames
    /\ UNCHANGED <<probe, amplitude, beat_energy, last_beat, hue, holders, ticks,
                   pcA, audioLocals, calls, pcR, spawned, committed, feed, onsets>>

PNext == PAudio \/ PRender

\* the loop of lines 173-179 never ends: a frame that can be drawn is drawn
SpecPool == Init /\ [][PNext]_vars /\ WF_vars(PRender)

(***************************************************************************)
(* The two threads, statement by statement.  The audio thread runs         *)
(* audio_callback once per buffer, the main thread draw_visualization once *)
(* per pass of its loop.                                                   *)
(***************************************************************************)
\* positions at which audio_callback is inside SDL_LockMutex..SDL_UnlockMutex
AudioSection == {"a_amp", "a_ema", "a_test", "a_spawn", "a_hue", "a_unlock"}
\* positions at which draw_visualization is inside its lock..unlock
RenderSection == {"r_beat", "r_last", "r_now", "r_radius", "r_circle",
                  "r_particles", "r_unlock"}

\* the lock is granted whoever holds it
CanLock_always(t) == TRUE

\* SDL_LockMutex returns to thread t once no other thread holds the mutex
CanLock(t) == holders \subseteq {t}

\* an unlock that leaves the mutex held
Release_kept(t) == holders

\* SDL_UnlockMutex by thread t: the holders left
Release(t) == holders \ {t}

\* lines 57-65: the energy of the buffer handed in
AStart ==
    /\ pcA = "a_idle" /\ calls < MaxThreadCalls
    /\ \E buf \in Buffers : samples' = buf /\ energy' = Energy(buf)
    /\ pcA' = "a_lock"
    /\ UNCHANGED <<probe, shared, holders, ticks, beat, calls, pcR, renderLocals,
                   frames, spawned, committed, feed, onsets>>

\* the callback goes on without the mutex
ALock_skipped ==
    /\ pcA = "a_lock"
    /\ pcA' = "a_amp"
    /\ UNCHANGED <<probe, shared, holders, ticks, audioLocals, calls, pcR, renderLocals,
                   frames, spawned, committed, feed, onsets>>

\* line 67: SDL_LockMutex(mutex)
ALock ==
    /\ pcA = "a_lock" /\ CanLock("audio")
    /\ holders' = holders \cup {"audio"}
    /\ pcA' = "a_amp"
    /\ UNCHANGED <<probe, shared, ticks, audioLocals, calls, pcR, renderLocals,
                   frames, spawned, committed, feed, onsets>>

\* line 68
AAmplitude ==
    /\ pcA = "a_amp"
    /\ amplitude' = energy
    /\ pcA' = "a_ema"
    /\ UNCHANGED <<probe, beat_energy, last_beat, particles, hue, holders, ticks,
                   audioLocals, calls, pcR, renderLocals, frames, spawned,
                   committed, feed, onsets>>

\* line 69
ABaseline ==
    /\ pcA = "a_ema"
    /\ beat_energy' = EMA(beat_energy, energy)
    /\ pcA' = "a_test"
    /\ UNCHANGED <<probe, amplitude, last_beat, particles, hue, holders, ticks,
                   audioLocals, calls, pcR, renderLocals, frames, spawned,
                   committed, feed, onsets>>

\* lines 71-72: the test, and on an onset the timestamp
ATest ==
    /\ pcA = "a_test"
    /\ beat' = Onset(energy, beat_energy)
    /\ IF beat' THEN last_beat' = ticks /\ pcA' = "a_spawn"
                ELSE last_beat' = last_beat /\ pcA' = "a_hue"
    /\ UNCHANGED <<probe, amplitude, beat_energy, particles, hue, holders, ticks,
                   samples, energy, calls, pcR, renderLocals, frames, spawned,
                   committed, feed, onsets>>

\* lines 74-87: the spawn loop
ASpawn ==
    /\ pcA = "a_spawn"
    /\ \E rnd \in RandSeqs :
          /\ particles' = SpawnInto(particles, rnd)
          /\ spawned' = Stamp(particles, TRUE, rnd)
    /\ pcA' = "a_hue"
    /\ UNCHANGED <<probe, amplitude, beat_energy, last_beat, hue, holders, ticks,
                   audioLocals, calls, pcR, renderLocals, frames,
                   committed, feed, onsets>>

\* line 90
AHue ==
    /\ pcA = "a_hue"
    /\ hue' = NextHue(hue)
    /\ pcA' = "a_unlock"
    /\ UNCHANGED <<probe, amplitude, beat_energy, last_beat, particles, holders, ticks,
                   audioLocals, calls, pcR, renderLocals, frames, spawned,
                   committed, feed, onsets>>

\* lines 91-92: SDL_UnlockMutex(mutex) and the return
AUnlock ==
    /\ pcA = "a_unlock"
    /\ holders' = Release("audio")
    /\ calls' = calls + 1
    /\ committed' = [amplitude |-> amplitude, last_beat |-> last_beat, hue |-> hue]
    /\ onsets' = IF beat THEN onsets \cup {calls + 1} ELSE onsets
    /\ pcA' = "a_idle"
    /\ UNCHANGED <<probe, shared, ticks, audioLocals, pcR, renderLocals, frames,
                   spawned, feed>>

\* lines 131-133: the background is cleared
RStart ==
    /\ pcR = "r_idle" /\ frames < MaxThreadFrames
    /\ pcR' = "r_lock"
    /\ UNCHANGED <<probe, shared, holders, ticks, pcA, audioLocals, calls, renderLocals,
                   frames, spawned, committed, feed, onsets>>

\* line 135: SDL_LockMutex(mutex)
RLock ==
    /\ pcR = "r_lock" /\ CanLock("render")
    /\ holders' = holders \cup {"render"}
    /\ pcR' = "r_beat"
    /\ UNCHANGED <<probe, shared, ticks, pcA, audioLocals, calls, renderLocals,
                   frames, spawned, committed, feed, onsets>>

\* line 137: SDL_GetTicks() - state.last_beat.  C leaves the order in which
\* the two operands are evaluated open: RBeat evaluates one of them, RLast
\* or RNow the other.
RBeat ==
    /\ pcR = "r_beat"
    /\ \/ now' = ticks /\ pcR' = "r_last" /\ UNCHANGED rLast
       \/ rLast' = last_beat /\ pcR' = "r_now" /\ UNCHANGED now
    /\ UNCHANGED <<probe, shared, holders, ticks, pcA, audioLocals, calls,
                   rAmp, ringHue, partHue, drawn,
                   frames, spawned, committed, feed, onsets>>

\* line 137: state.last_beat, read after SDL_GetTicks()
RLast ==
    /\ pcR = "r_last"
    /\ rLast' = last_beat
    /\ pcR' = "r_radius"
    /\ UNCHANGED <<probe, shared, holders, ticks, pcA, audioLocals, calls,
                   now, rAmp, ringHue, partHue, drawn,
                   frames, spawned, committed, feed, onsets>>

\* line 137: SDL_GetTicks(), called after state.last_beat was read
RNow ==
    /\ pcR = "r_now"
    /\ now' = ticks
    /\ pcR' = "r_radius"
    /\ UNCHANGED <<probe, shared, holders, ticks, pcA, audioLocals, calls,
                   rLast, rAmp, ringHue, partHue, drawn,
                   frames, spawned, committed, feed, onsets>>

\* line 138: the radius, from state.amplitude
RRadius ==
    /\ pcR = "r_radius"
    /\ rAmp' = amplitude
    /\ pcR' = "r_circle"
    /\ UNCHANGED <<probe, shared, holders, ticks, pcA, audioLocals, calls,
                   now, rLast, ringHue, partHue, drawn,
                   frames, spawned, committed, feed, onsets>>

\* line 140: draw_circle reads state.hue for the colour of the ring
RCircle ==
    /\ pcR = "r_circle"
    /\ ringHue' = hue
    /\ pcR' = "r_particles"
    /\ UNCHANGED <<probe, shared, holders, ticks, pcA, audioLocals, calls,
                   now, rLast, rAmp, partHue, drawn,
                   frames, spawned, committed, feed, onsets>>

\* line 141: draw_particles reads state.hue, then advances and draws
RParticles ==
    /\ pcR = "r_particles"
    /\ partHue' = hue
    /\ drawn' = DrawnSlots(particles)
    /\ particles' = [i \in Slots |-> Advance(particles[i])]
    /\ pcR' = "r_unlock"
    /\ UNCHANGED <<probe, amplitude, beat_energy, last_beat, hue, holders, ticks,
                   pcA, audioLocals, calls, now, rLast, rAmp, ringHue,
                   frames, spawned, committed, feed, onsets>>

\* line 142: SDL_UnlockMutex(mutex); the frame is presented
RUnlock ==
    /\ pcR = "r_unlock"
    /\ holders' = Release("render")
    /\ frames' = frames + 1
    /\ pcR' = "r_idle"
    /\ UNCHANGED <<probe, shared, ticks, pcA, audioLocals, calls, renderLocals,
                   spawned, committed, feed, onsets>>

Audio == AStart \/ ALock \/ AAmplitude \/ ABaseline \/ ATest \/ ASpawn \/ AHue \/ AUnlock

Render ==
    RStart \/ RLock \/ RBeat \/ RLast \/ RNow \/ RRadius \/ RCircle \/ RParticles
    \/ RUnlock

Next == Audio \/ Render \/ Tick

Spec == Init /\ [][Next]_vars

(***************************************************************************)
(* The two threads with the render loop unending and both threads          *)
(* scheduled: a thread that can take a step is not left waiting for ever.  *)
(* The frame counter stops counting at MaxFairFrames; the frames go on.    *)
(***************************************************************************)
\* lines 57-65: the energy of the buffer handed in
FBuffer ==
    /\ pcA = "a_idle" /\ calls < MaxFairCalls
    /\ \E buf \in LifeBuffers : samples' = buf /\ energy' = Energy(buf)
    /\ pcA' = "a_lock"
    /\ UNCHANGED <<probe, shared, holders, ticks, beat, calls, pcR, renderLocals,
                   frames, spawned, committed, feed, onsets>>

FAudio ==
    FBuffer \/ ALock \/ AAmplitude \/ ABaseline \/ ATest \/ ASpawn \/ AHue \/ AUnlock

\* lines 173-179, 131-133: the next pass of while(1)
FStart ==
    /\ pcR = "r_idle"
    /\ pcR' = "r_lock"
    /\ UNCHANGED <<probe, shared, holders, ticks, pcA, audioLocals, calls, renderLocals,
                   frames, spawned, committed, feed, onsets>>

\* line 142: SDL_UnlockMutex(mutex); the frame is presented
FUnlock ==
    /\ pcR = "r_unlock"
    /\ holders' = Release("render")
    /\ frames' = IF frames < MaxFairFrames THEN frames + 1 ELSE frames
    /\ pcR' = "r_idle"
    /\ UNCHANGED <<probe, shared, ticks, pcA, audioLocals, calls, renderLocals,
                   spawned, committed, feed, onsets>>

FRender ==
    FStart \/ RLock \/ RBeat \/ RLast \/ RNow \/ RRadius \/ RCircle \/ RParticles
    \/ FUnlock

FNext == FAudio \/ FRender

SpecFair == Init /\ [][FNext]_vars /\ WF_vars(FAudio) /\ WF_vars(FRender)

(***************************************************************************)
(* The analyzer fed a prescribed stream from program start: the same       *)
(* buffer over and over ("const"), or the Quiet buffer throughout except   *)
(* for one Loud buffer, the spike-th ("spike"), or a long run of Silent     *)
(* buffers with a Loud one every spike-th buffer ("pulse").                *)
(***************************************************************************)
Streams ==
    {[kind |-> "const", buf |-> b, spike |-> 0] : b \in {Silent, Quiet, Soft, Loud}}
    \cup {[kind |-> "spike", buf |-> Quiet, spike |-> k] : k \in FirstSpike..(FirstSpike + 3)}
    \cup {[kind |-> "pulse", buf |-> Silent, spike |-> PulsePeriod]}

\* the n-th buffer of the stream f
StreamBuffer(f, n) ==
    IF f.kind = "spike" /\ n = f.spike THEN Loud
    ELSE IF f.kind = "pulse" /\ n % f.spike = 1 THEN Loud
    ELSE f.buf

\* the number of buffers fed from the stream f
FeedLength(f) == IF f.kind = "pulse" THEN LongFeed ELSE MaxFeed

SInit == Boot /\ feed \in Streams /\ probe = NoProbe

Feed ==
    /\ calls < FeedLength(feed)
    /\ \E rnd \in RandSeqs : AudioCallback(StreamBuffer(feed, calls + 1), rnd)
    /\ UNCHANGED <<probe, holders, ticks, pcA, pcR, renderLocals, frames, feed>>

SNext == Feed

SpecStream == SInit /\ [][SNext]_vars

(***************************************************************************)
(* HSLtoRGB on its own: the conversion is called on a hue h in [0, 360)    *)
(* and on the same hue k whole turns away, with the same s and l.          *)
(***************************************************************************)
\* hues on and between the sector boundaries, in tenths of a degree
ProbeHues == {0, 300, 599, 600, 900, 1200, 1500, 1800, 2400, 2700, 3000, 3599}
\* saturations and lightnesses, in thousandths (0.8, 0.6 and 0.7 are the
\* values draw_circle and draw_particles pass)
ProbeSats == {0, 800, 1000}
ProbeLights == {500, 600, 700}

ProbeInputs ==
    {[h |-> h, k |-> k, s |-> s, l |-> l, base |-> <<0, 0, 0>>,
      turned |-> <<0, 0, 0>>, made |-> FALSE] :
        h \in ProbeHues, k \in (-MaxTurns)..MaxTurns, s \in ProbeSats,
        l \in ProbeLights}

CInit == Boot /\ feed = NoFeed /\ probe \in ProbeInputs

Convert ==
    /\ ~probe.made
    /\ \E a \in HSLtoRGB(probe.h, probe.s, probe.l),
          b \in HSLtoRGB(probe.h + HUE_TURN * probe.k, probe.s, probe.l) :
          probe' = [probe EXCEPT !.base = a, !.turned = b, !.made = TRUE]
    /\ UNCHANGED <<shared, holders, ticks, pcA, audioLocals, calls, pcR,
                   renderLocals, frames, spawned, committed, feed, onsets>>

CNext == Convert

SpecColor == CInit /\ [][CNext]_vars

(***************************************************************************)
(* Claims about one analyzer invocation (SpecHandlers).  A step with       *)
(* calls' = calls + 1 is one whole invocation; beat' tells whether it      *)
(* signalled an onset, energy' is its buffer energy.                       *)
(***************************************************************************)
Analyzed == calls' = calls + 1

\* C3: an onset is signalled iff the buffer energy exceeds 1.4 times the
\* baseline held in beat_energy BEFORE the invocation.
C3_OnsetUsesPreUpdateBaseline ==
    [][Analyzed => (beat' <=> 10 * energy' > 14 * beat_energy)]_vars

\* C6: cold start.  With beat_energy = 0, an invocation whose buffer energy
\* is positive signals an onset: last_beat is recorded and, if a slot is
\* free, a particle is spawned in the lowest free slot.
C6_ColdStartOnset ==
    [][(Analyzed /\ beat_energy = 0 /\ energy' > 0)
          => /\ beat'
             /\ last_beat' = ticks
             /\ \A i \in Slots :
                   (particles[i].lifetime <= 0
                      /\ \A j \in 1..(i - 1) : particles[j].lifetime > 0)
                   => particles'[i].lifetime > 0]_vars

\* C6 witness: the first buffer was silent, the second was not, and the
\* second (the first nonzero one) signalled the onset.
C6_Witness ==
    /\ calls = 2 /\ beat /\ energy > 0 /\ onsets = {2}
    /\ last_beat = 1 /\ ActiveSlots(particles) = {1}

\* C7: an onset while every slot is active spawns nothing: no particle
\* field changes, all slots stay active, and the invocation completes
\* (amplitude, last_beat and hue are updated, the mutex is free again).
C7_FullPoolSpawnIsNoOp ==
    [][(Analyzed /\ beat' /\ ActiveSlots(particles) = Slots)
          => /\ particles' = particles
             /\ Cardinality(ActiveSlots(particles')) = MAX_PARTICLES
             /\ amplitude' = energy'
             /\ last_beat' = ticks
             /\ hue' = (hue + 3) % 3600
             /\ holders' = {}]_vars

\* C7 witness: the latest invocation signalled an onset and stamped no
\* slot, every slot being active since an earlier invocation.
C7_Witness ==
    /\ beat /\ calls = MAX_PARTICLES + 1
    /\ ActiveSlots(particles) = Slots
    /\ \A i \in Slots : spawned[i].lifetime > 0 /\ spawned[i].call < calls

\* C10: an invocation on an all-zero buffer sets amplitude to 0, signals
\* no onset (last_beat unchanged), advances hue by 0.3 degrees modulo 360
\* and changes no particle slot.
C10_SilentBuffer ==
    [][(Analyzed /\ samples' = Silent)
          => /\ amplitude' = 0
             /\ ~beat'
             /\ last_beat' = last_beat
             /\ hue' = (hue + 3) % 3600
             /\ particles' = particles]_vars

\* C10 witness: a silent buffer has just been analyzed in a state with a
\* nonzero baseline, a recorded beat and an active particle, and it took
\* hue from 359.7 round to 0.
C10_Witness ==
    /\ samples = Silent /\ calls = 1200 /\ amplitude = 0 /\ ~beat
    /\ beat_energy > 0 /\ last_beat > 0 /\ ActiveSlots(particles) # {}
    /\ hue = 0 /\ frames = 1

(***************************************************************************)
(* Claims about the life of a particle (SpecLife).  A step with            *)
(* frames' = frames + 1 is one whole render frame.                         *)
(***************************************************************************)
Rendered == frames' = frames + 1

Max0(n) == IF n > 0 THEN n ELSE 0

\* C8: each advance step sets alpha to max(alpha - 8, 0): the decrement
\* saturates, so the alpha of an active particle never increases.
C8_AlphaSaturates ==
    [][Rendered =>
          \A i \in Slots : particles[i].lifetime > 0 =>
              /\ particles'[i].alpha = Max0(particles[i].alpha - 8)
              /\ particles'[i].alpha <= particles[i].alpha]_vars

\* C9: a particle spawned with lifetime L is advanced by exactly L frames:
\* every frame takes one off the lifetime of an active slot, no analyzer
\* invocation changes the lifetime of an active slot, and so k frames after
\* its spawn the slot holds lifetime max(L - k, 0).
C9_LivesExactlyL ==
    [][/\ \A i \in Slots : particles[i].lifetime > 0 =>
            particles'[i].lifetime = particles[i].lifetime - (frames' - frames)
       /\ \A i \in Slots : spawned'[i].lifetime > 0 =>
            particles'[i].lifetime =
                Max0(spawned'[i].lifetime - (frames' - spawned'[i].frame))]_vars

\* C9 witness: slot 1 has just expired, exactly L frames after its spawn,
\* and the analyzer ran in between (it spawned slot 2 meanwhile).
C9_Witness ==
    /\ spawned[1].lifetime > 0 /\ particles[1].lifetime = 0
    /\ frames = spawned[1].frame + spawned[1].lifetime
    /\ spawned[2].lifetime > 0
    /\ spawned[1].frame < spawned[2].frame /\ spawned[2].frame < frames
    /\ particles[2].lifetime > 0

(***************************************************************************)
(* Claims about fed streams (SpecStream).  onsets is the set of buffer     *)
(* numbers at which an onset was signalled.                                *)
(***************************************************************************)
ConstPositive == feed.kind = "const" /\ Energy(feed.buf) > 0

\* C4 (as stated): on a stream of constant energy E > 0 fed from the
\* initial state, an onset fires on the first buffer and on no later one.
C4_OnlyColdStartOnset ==
    ConstPositive => (onsets \subseteq {1} /\ (calls >= 1 => 1 \in onsets))

\* C4 (amended): on a stream of constant energy E > 0 fed from the initial
\* state, an onset fires on each of the first 11 buffers and on no buffer
\* from the 12th on.
C4_ColdStartRunEnds ==
    ConstPositive => onsets = 1..(IF calls < 11 THEN calls ELSE 11)

\* C4 witness: a constant stream fed well past its last onset.
C4_Witness ==
    ConstPositive /\ calls = MaxFeed /\ onsets = 1..11

\* the baseline is within one per cent of the steady energy of the stream
Settled == Abs(beat_energy - Energy(feed.buf)) * 100 <= Energy(feed.buf)

\* C5: on a stream steady at energy 0.01 but for one buffer of energy 1.0,
\* the baseline has settled at 0.01 when the spike comes, and from the
\* buffer at which it has settled on an onset fires on the spike buffer and
\* on no other buffer, before or after the spike.
C5_OnsetExactlyOnSpike ==
    [][/\ (Analyzed /\ feed.kind = "spike" /\ calls' = feed.spike) => Settled
       /\ (Analyzed /\ feed.kind = "spike" /\ (Settled \/ calls >= feed.spike))
             => (beat' <=> calls' = feed.spike)]_vars

\* C5 witness: the whole stream fed; the baseline had settled before the
\* spike, and besides the onsets of the cold start the spike is the only
\* one.
C5_Witness ==
    /\ feed.kind = "spike" /\ calls = MaxFeed /\ calls > feed.spike
    /\ onsets = 1..11 \cup {feed.spike}

(***************************************************************************)
(* Claims about the two threads (Spec).                                    *)
(***************************************************************************)
\* C1: at most one thread holds the mutex, and each thread is at a
\* statement that reads or writes the shared state only while it holds it.
C1_MutexGuardsState ==
    /\ Cardinality(holders) <= 1
    /\ pcA \in AudioSection => "audio" \in holders
    /\ pcR \in RenderSection => "render" \in holders

\* C1 witness: the renderer is advancing the particles under the mutex
\* while the audio callback, a buffer in hand, waits for it.
C1_Witness ==
    /\ pcR = "r_particles" /\ holders = {"render"} /\ pcA = "a_lock"
    /\ ActiveSlots(particles) # {} /\ calls = 1

\* C2: a frame reads a consistent snapshot.  While the renderer is between
\* its lock and unlock the analyzer is not in the middle of an invocation,
\* and every value the frame has read so far (last_beat and amplitude for
\* the radius, hue for the ring, hue for the particles) is the value left
\* by the latest completed invocation; the two hues of a frame agree.
C2_FrameSnapshot ==
    /\ pcR \in RenderSection => pcA \notin AudioSection
    /\ pcR \in {"r_radius", "r_circle", "r_particles", "r_unlock"}
          => rLast = committed.last_beat
    /\ pcR \in {"r_circle", "r_particles", "r_unlock"}
          => rAmp = committed.amplitude
    /\ pcR \in {"r_particles", "r_unlock"} => ringHue = committed.hue
    /\ pcR = "r_unlock" => partHue = committed.hue /\ partHue = ringHue

\* C2 witness: a frame has made all its reads, after a completed analyzer
\* invocation that signalled an onset, while the next invocation waits.
C2_Witness ==
    /\ pcR = "r_unlock" /\ calls = 1 /\ pcA = "a_lock"
    /\ rAmp > 0 /\ ringHue = 3 /\ partHue = 3 /\ drawn # {}

(***************************************************************************)
(* Claims about HSLtoRGB (SpecColor).                                      *)
(***************************************************************************)
\* C11: HSLtoRGB is invariant under whole turns of the hue: for h in
\* [0, 360), any integer k, positive or negative, and any s, l, the call on
\* h + 360 k stores the same three channels as the call on h.
C11_WholeTurnInvariant ==
    probe.made => probe.turned = probe.base

\* the same for turns added only (k >= 0), which the code does honour
C11_ForwardTurnInvariant ==
    (probe.made /\ probe.k >= 0) => probe.turned = probe.base

(***************************************************************************)
(* Claims about spawning and the render frame (SpecLife, SpecHandlers).    *)
(***************************************************************************)
\* the slots whose lifetime is <= 0
InactiveSlots(ps) == {i \in Slots : ps[i].lifetime <= 0}

\* the lowest of a non-empty set of slots
Lowest(S) == CHOOSE i \in S : \A j \in S : i <= j

\* C12: an invocation that signals an onset while some slot is inactive
\* activates exactly one slot, the lowest-index one whose lifetime is <= 0,
\* and changes no other slot; an invocation without an onset changes no
\* slot; so the number of active slots grows by at most one per invocation.
C12_SpawnsLowestInactive ==
    [][Analyzed =>
          /\ (beat' /\ InactiveSlots(particles) # {}) =>
                LET i == Lowest(InactiveSlots(particles))
                IN  /\ particles'[i].lifetime > 0
                    /\ \A j \in Slots \ {i} : particles'[j] = particles[j]
                    /\ ActiveSlots(particles') = ActiveSlots(particles) \cup {i}
          /\ ~beat' => particles' = particles
          /\ Cardinality(ActiveSlots(particles'))
                <= Cardinality(ActiveSlots(particles)) + 1]_vars

\* C12 witness: the latest invocation filled slot 2 because slot 1, filled
\* by an earlier invocation, was still active; nothing was drawn since.
C12_Witness ==
    /\ beat /\ calls = 2 /\ MAX_PARTICLES >= 2
    /\ spawned[2].call = calls /\ spawned[2].frame = frames
    /\ spawned[1].call = 1
    /\ particles[1].lifetime > 0
    /\ particles[2].lifetime = spawned[2].lifetime

\* C13: right after a successful spawn, before any frame, the new slot is
\* at the window centre (400, 400), has alpha 255, an integer lifetime in
\* 20..49 and a velocity of magnitude between 1.0 and 3.0 pixels per frame
\* (compared by squares, in thousandths of a pixel).
C13_FreshParticle ==
    [][(Analyzed /\ beat' /\ InactiveSlots(particles) # {}) =>
          LET p == particles'[Lowest(InactiveSlots(particles))]
          IN  /\ p.x = 400 * 1000 /\ p.y = 400 * 1000
              /\ p.alpha = 255
              /\ p.lifetime \in 20..49
              /\ p.dx * p.dx + p.dy * p.dy >= 1000 * 1000
              /\ p.dx * p.dx + p.dy * p.dy <= 3000 * 3000]_vars

\* C13 witness: the latest invocation spawned a particle at the fastest
\* speed and the shortest lifetime, and no frame has advanced it yet.
C13_Witness ==
    \E i \in Slots :
        /\ beat /\ spawned[i].call = calls /\ spawned[i].frame = frames
        /\ particles[i].x = 400 * 1000 /\ particles[i].y = 400 * 1000
        /\ particles[i].dx = 0 /\ particles[i].dy = 3000
        /\ particles[i].lifetime = 20 /\ particles[i].alpha = 255

\* C14: in a render frame a slot is advanced and drawn exactly when its
\* lifetime was > 0 at the start of the frame: an inactive slot is neither
\* moved, aged, faded nor drawn, and a particle whose lifetime goes from 1
\* to 0 in the frame is still advanced and drawn in it.
C14_AdvancedAndDrawnIffActive ==
    [][Rendered =>
          \A i \in Slots :
             /\ particles[i].lifetime > 0 =>
                   /\ i \in drawn'
                   /\ particles'[i].x = particles[i].x + particles[i].dx
                   /\ particles'[i].y = particles[i].y + particles[i].dy
                   /\ particles'[i].lifetime = particles[i].lifetime - 1
                   /\ particles'[i].alpha # particles[i].alpha
             /\ particles[i].lifetime <= 0 =>
                   /\ i \notin drawn'
                   /\ particles'[i] = particles[i]]_vars

\* C14 witness: the latest frame took slot 1 from lifetime 1 to 0 and drew
\* it, and left slot 2, never spawned, alone.
C14_Witness ==
    /\ spawned[1].lifetime > 0 /\ particles[1].lifetime = 0
    /\ frames = spawned[1].frame + spawned[1].lifetime
    /\ drawn = {1}
    /\ spawned[2].lifetime = 0 /\ particles[2] = EmptyPool[2]

(***************************************************************************)
(* Claims about the hue (SpecStream).                                      *)
(***************************************************************************)
\* C15: every analyzer invocation, whether or not it signals an onset and
\* whether or not its spawn finds a slot, advances the hue by exactly 0.3
\* degrees modulo 360: in every reachable state 0 <= hue < 360, and after n
\* invocations from the initial state the hue is (0.3 n) mod 360.
C15_HueFollowsCalls ==
    /\ hue >= 0 /\ hue < 3600
    /\ hue = (3 * calls) % 3600

\* C15 witness: 1201 buffers of the pulse stream have been analyzed, with
\* onsets that spawned, onsets on a full pool and buffers without onset, and
\* the hue is one step past its wrap.
C15_Witness ==
    /\ feed.kind = "pulse" /\ calls = 1201 /\ hue = 3
    /\ Cardinality(onsets) > MAX_PARTICLES
    /\ Cardinality(onsets) < calls
    /\ ActiveSlots(particles) = Slots

(***************************************************************************)
(* Claims about the two threads (Spec), continued.                         *)
(***************************************************************************)
\* C18: the clock being monotonic, the time a frame reads is never before
\* the last_beat it reads, in every interleaving of the two threads: the
\* analyzer stamps last_beat and the frame makes both its reads with the
\* mutex held.  So the unsigned difference does not wrap and beat_strength
\* is >= 0.
C18_BeatAgeNonNegative ==
    /\ last_beat <= ticks
    /\ pcR \in {"r_radius", "r_circle", "r_particles", "r_unlock"}
          => now >= rLast

\* C18 witness: a frame has read the clock and a last_beat stamped by an
\* onset after the clock had advanced, while the analyzer waits for the
\* mutex.
C18_Witness ==
    /\ pcR = "r_radius" /\ rLast > 0 /\ now >= rLast
    /\ rLast = last_beat /\ pcA = "a_lock" /\ onsets # {}

\* C16: the two threads write disjoint parts of the state.  No step of a
\* render frame changes amplitude, beat_energy, last_beat or hue, or makes
\* an inactive slot active (a frame only moves, ages and fades slots that
\* are active already); no step of an analyzer invocation changes any field
\* of a slot that is active when it runs.
C16_DisjointWrites ==
    [][/\ pcR' # pcR =>
            /\ amplitude' = amplitude /\ beat_energy' = beat_energy
            /\ last_beat' = last_beat /\ hue' = hue
            /\ \A i \in Slots : particles[i].lifetime <= 0 =>
                   particles'[i] = particles[i]
       /\ pcA' # pcA =>
            \A i \in Slots : particles[i].lifetime > 0 =>
                   particles'[i] = particles[i]]_vars

\* C16 witness: an invocation has just spawned into slot 2 with slot 1
\* active, after a frame that advanced slot 1 and passed over the then
\* inactive slot 2.
C16_Witness ==
    /\ pcA = "a_hue" /\ beat /\ calls = 1 /\ frames >= 1
    /\ spawned[1].call = 1 /\ spawned[2].call = 2
    /\ spawned[2].frame > spawned[1].frame
    /\ particles[1].lifetime > 0
    /\ particles[1].lifetime < spawned[1].lifetime
    /\ particles[2].lifetime = spawned[2].lifetime

(***************************************************************************)
(* Claims about lifetimes (SpecLife), continued.                           *)
(***************************************************************************)
\* C19: in every reachable state the lifetime of every slot is an integer
\* in 0..49: 0 at start, 20..49 at a spawn, one less per frame while > 0,
\* never below 0.
C19_LifetimeRange ==
    \A i \in Slots : particles[i].lifetime \in 0..49

\* C19 witness: slot 1 has come back to 0 after living out its lifetime and
\* stayed there for a further frame, while slot 2, spawned with the longest
\* lifetime, 49, is still on its way down.
C19_Witness ==
    /\ spawned[1].lifetime > 0 /\ particles[1].lifetime = 0
    /\ frames > spawned[1].frame + spawned[1].lifetime
    /\ spawned[2].lifetime = 49
    /\ particles[2].lifetime = 49 - (frames - spawned[2].frame)
    /\ particles[2].lifetime > 0

(***************************************************************************)
(* Claims about the unending render loop (SpecPool).                       *)
(***************************************************************************)
\* C20: a full pool does not stay full.  The render loop drawing frame
\* after frame, every active particle eventually becomes inactive; so from
\* any state with all slots active a state with an inactive slot is
\* reached, whatever analyzer invocations come in between, and an onset can
\* spawn again.
C20_FullPoolDrains ==
    /\ (ActiveSlots(particles) = Slots) ~> (InactiveSlots(particles) # {})
    /\ \A i \in Slots :
          (particles[i].lifetime > 0) ~> (particles[i].lifetime <= 0)

\* C20 witness: the pool was filled by the first MAX_PARTICLES invocations,
\* a further invocation signalled an onset on the full pool, and the frames
\* since have emptied every slot.
C20_Witness ==
    /\ \A i \in Slots : spawned[i].call = i
    /\ calls = MAX_PARTICLES + 1 /\ onsets = 1..calls
    /\ beat_energy > 0
    /\ InactiveSlots(particles) = Slots

(***************************************************************************)
(* Claims about the scheduled threads (SpecFair).                          *)
(***************************************************************************)
\* the mutex is held by a thread exactly while it is inside its section
HeldInsideSections ==
    /\ ("audio" \in holders) = (pcA \in AudioSection)
    /\ ("render" \in holders) = (pcR \in RenderSection)

\* whoever holds the mutex releases it
HolderReleases ==
    /\ (pcA \in AudioSection) ~> ("audio" \notin holders)
    /\ (pcR \in RenderSection) ~> ("render" \notin holders)

\* a thread waiting for the mutex gets it
WaiterEnters ==
    /\ (pcA = "a_lock") ~> (pcA \in AudioSection)
    /\ (pcR = "r_lock") ~> (pcR \in RenderSection)

\* C17 (as stated): the system never deadlocks, every path of either
\* thread releases the mutex before its invocation or frame ends, so the
\* holder always releases eventually, and with a weakly fair scheduler both
\* threads get to run their critical sections: a thread waiting for the
\* mutex enters its section.
C17_WeakFairnessSuffices ==
    /\ []HeldInsideSections
    /\ []ENABLED <<FNext>>_vars
    /\ HolderReleases
    /\ WaiterEnters

\* C17 (amended): no deadlock, every path releases, the holder always
\* releases eventually; and when the scheduler is strongly fair to the two
\* SDL_LockMutex calls, a thread waiting for the mutex enters its section.
C17_StrongFairnessSuffices ==
    /\ []HeldInsideSections
    /\ []ENABLED <<FNext>>_vars
    /\ HolderReleases
    /\ (SF_vars(ALock) /\ SF_vars(RLock)) => WaiterEnters

\* C17 witness: the analyzer waits for the mutex while a frame holds it,
\* after an earlier frame ran through its section and released it.
C17_Witness ==
    /\ pcA = "a_lock" /\ holders = {"render"} /\ pcR = "r_particles"
    /\ frames = 1 /\ energy > 0

=============================================================================
